---- MODULE Spec2Model ----
(***************************************************************************)
(* Model of backend/predictions_service.py: the indicator functions of     *)
(* StockPredictor, predict_price and the /api/predict endpoint.            *)
(*                                                                         *)
(* Numbers.  Python floats are modelled as exact rationals <<n, d>> with   *)
(* d > 0 and gcd(n, d) = 1.  The two irrational library functions are      *)
(* modelled to a few decimals: Sqrt rounds up (so that, as for the float    *)
(* square root, the result is 0 exactly when the argument is 0), Tanh      *)
(* interpolates a table of tanh.  Python's None is the pair <<0, 0>> and a *)
(* raised exception is the pair <<0, -1>>, so that every value a function  *)
(* can return has the same shape.                                          *)
(***************************************************************************)
EXTENDS Integers, Sequences, FiniteSets, TLC

VARIABLES
    provider,   \* what yf.Ticker(symbol).history() gives: raises, closes, volumes
    analysis,   \* what predict_price derives from that history before it projects:
                \* always Analyse(provider), kept so it is computed once per history
    call,       \* the predict_price call of the last operation: argument and return value
    http,       \* the answer of the last operation when it was a GET /api/predict
    fn,         \* the last call of an indicator function: arguments and return value
    cls,        \* the signal-and-confidence block evaluated at one score: the score
                \* and the last evaluations, newest last
    conc,       \* predict_price running in several threads: numpy's generator and
                \* each thread's position
    cmp,        \* POST /api/compare: the histories of the symbols and the last answer
    top,        \* gainers.py: a stock list, k, and what the top-k functions returned
    live,       \* search.py: the last request of a live-data endpoint and its answer
    sc,         \* the prediction components evaluated at chosen indicator values
    mc,         \* calculate_macd called on its own: the prices and the return value
    tr          \* the trend score of a series: the prices, the SMAs and the score

vars == <<provider, analysis, call, http, fn, cls, conc, cmp, top, live, sc, mc, tr>>

\* the variables of the operations outside predict_price and the indicators
others == <<conc, cmp, top, live, sc, mc, tr>>

----------------------------------------------------------------------------
\* Exact rational arithmetic (the model of float arithmetic)

None == <<0, 0>>
Raise == <<0, -1>>

IsNum(x) == x[2] > 0

RECURSIVE GCD(_, _)
GCD(a, b) == IF b = 0 THEN a ELSE GCD(b, a % b)

Abs(n) == IF n < 0 THEN -n ELSE n

Norm(n, d) ==
    LET g == GCD(Abs(n), Abs(d))
        s == IF d < 0 THEN -1 ELSE 1
    IN  <<(s * n) \div g, (s * d) \div g>>

I(n) == <<n, 1>>
R(n, d) == Norm(n, d)

RAdd(a, b) ==
    IF a[2] = b[2]
    THEN IF a[2] = 1 THEN <<a[1] + b[1], 1>> ELSE Norm(a[1] + b[1], a[2])
    ELSE LET g == GCD(a[2], b[2])
         IN  Norm(a[1] * (b[2] \div g) + b[1] * (a[2] \div g), (a[2] \div g) * b[2])

RNeg(a) == <<-a[1], a[2]>>
RSub(a, b) == RAdd(a, RNeg(b))

RMul(a, b) ==
    IF a[1] = 0 \/ b[1] = 0 THEN <<0, 1>>
    ELSE IF a[2] = 1 /\ b[2] = 1 THEN <<a[1] * b[1], 1>>
    ELSE LET g1 == GCD(Abs(a[1]), b[2])
             g2 == GCD(Abs(b[1]), a[2])
         IN  <<(a[1] \div g1) * (b[1] \div g2), (a[2] \div g2) * (b[2] \div g1)>>

\* a / b for b # 0
RDiv(a, b) == RMul(a, IF b[1] < 0 THEN <<-b[2], -b[1]>> ELSE <<b[2], b[1]>>)

RSign(a) == IF a[1] > 0 THEN 1 ELSE IF a[1] < 0 THEN -1 ELSE 0
RLt(a, b) == IF a[2] = b[2] THEN a[1] < b[1] ELSE RSign(RSub(a, b)) < 0
RLe(a, b) == IF a[2] = b[2] THEN a[1] <= b[1] ELSE RSign(RSub(a, b)) <= 0
RAbs(a) == <<Abs(a[1]), a[2]>>
RMin(a, b) == IF RLe(a, b) THEN a ELSE b

\* <<floor(n * 10^k / d), remainder>> by long division, d > 0
RECURSIVE LongDiv(_, _, _)
LongDiv(n, d, k) ==
    IF k = 0 THEN <<n \div d, n % d>>
    ELSE LET p == LongDiv(n, d, k - 1)
         IN  <<p[1] * 10 + ((p[2] * 10) \div d), (p[2] * 10) % d>>

Pow10(k) == IF k = 0 THEN 1 ELSE IF k = 1 THEN 10 ELSE IF k = 2 THEN 100 ELSE 1000

\* Python round(x, k): to the nearest multiple of 10^-k, ties to even
Round(x, k) ==
    LET p == LongDiv(x[1], x[2], k)
        q == IF 2 * p[2] < x[2] THEN p[1]
             ELSE IF 2 * p[2] > x[2] THEN p[1] + 1
             ELSE IF p[1] % 2 = 0 THEN p[1] ELSE p[1] + 1
    IN  Norm(q, Pow10(k))

\* least k in lo..hi with k * k >= m (hi * hi >= m)
RECURSIVE CeilRoot(_, _, _)
CeilRoot(m, lo, hi) ==
    IF lo >= hi THEN hi
    ELSE LET mid == (lo + hi) \div 2
         IN  IF mid * mid >= m THEN CeilRoot(m, lo, mid) ELSE CeilRoot(m, mid + 1, hi)

\* math.sqrt to three decimals, rounded up: 0 exactly when x = 0
Sqrt(x) ==
    IF x[1] = 0 THEN I(0)
    ELSE LET p == LongDiv(x[1], x[2], 6)
             m == IF p[2] > 0 THEN p[1] + 1 ELSE p[1]
         IN  Norm(CeilRoot(m, 0, 46340), 1000)

\* 100 * tanh(k / 2) for k = 0..6, to the nearest integer
TanhTable == <<0, 46, 76, 91, 96, 99, 100>>

\* np.tanh to two decimals: odd, increasing, 1 from 3 on
TanhPos(x) ==
    LET k == (2 * x[1]) \div x[2]
    IN  IF k >= 6 THEN I(1)
        ELSE LET lo == R(TanhTable[k + 1], 100)
                 hi == R(TanhTable[k + 2], 100)
                 t  == RSub(RMul(I(2), x), I(k))
             IN  Round(RAdd(lo, RMul(t, RSub(hi, lo))), 2)

Tanh(x) == IF x[1] < 0 THEN RNeg(TanhPos(RNeg(x))) ELSE TanhPos(x)

----------------------------------------------------------------------------
\* List helpers

\* a list comprehension, built once: the list of f[1], ..., f[n]
List(f) == SubSeq(f, 1, Len(f))

\* prices[-p:] (Python: the whole list when p = 0 or p > len)
SliceLast(s, p) ==
    IF p = 0 \/ p >= Len(s) THEN s ELSE SubSeq(s, Len(s) - p + 1, Len(s))

\* prices[:p]
SliceFirst(s, p) == IF p >= Len(s) THEN s ELSE SubSeq(s, 1, p)

\* prices[p:]
SliceFrom(s, p) == IF p >= Len(s) THEN <<>> ELSE SubSeq(s, p + 1, Len(s))

\* sum(s[lo..hi]), by halves
RECURSIVE SumRange(_, _, _)
SumRange(s, lo, hi) ==
    IF lo > hi THEN I(0)
    ELSE IF lo = hi THEN s[lo]
    ELSE LET mid == (lo + hi) \div 2
         IN  RAdd(SumRange(s, lo, mid), SumRange(s, mid + 1, hi))

Sum(s) == SumRange(s, 1, Len(s))

\* min(s[lo..hi]) and max(s[lo..hi]), by halves
RECURSIVE Least(_, _, _)
Least(s, lo, hi) ==
    IF lo = hi THEN s[lo]
    ELSE LET mid == (lo + hi) \div 2
             a == Least(s, lo, mid)
             b == Least(s, mid + 1, hi)
         IN  IF RLe(a, b) THEN a ELSE b

RECURSIVE Greatest(_, _, _)
Greatest(s, lo, hi) ==
    IF lo = hi THEN s[lo]
    ELSE LET mid == (lo + hi) \div 2
             a == Greatest(s, lo, mid)
             b == Greatest(s, mid + 1, hi)
         IN  IF RLe(b, a) THEN a ELSE b

\* statistics.stdev: Bessel-corrected sample standard deviation;
\* StatisticsError for fewer than two values
stdev(xs) ==
    IF Len(xs) < 2 THEN Raise
    ELSE LET n    == Len(xs)
             mean == RDiv(Sum(xs), I(n))
             sq   == List([i \in 1..n |-> LET d == RSub(xs[i], mean) IN RMul(d, d)])
         IN  Sqrt(RDiv(Sum(sq), I(n - 1)))

----------------------------------------------------------------------------
\* StockPredictor: the indicator functions

\* without the length test: Python slices a short list to all of it
calculate_sma_unguarded(prices, period) ==
    IF period = 0 THEN Raise
    ELSE RDiv(Sum(SliceLast(prices, period)), I(period))

calculate_sma(prices, period) ==
    IF Len(prices) < period THEN None
    ELSE IF period = 0 THEN Raise
    ELSE RDiv(Sum(SliceLast(prices, period)), I(period))

RECURSIVE EmaFold(_, _, _, _)
EmaFold(rest, k, m, ema) ==
    IF k = 0 THEN ema
    ELSE LET e == EmaFold(rest, k - 1, m, ema)
         IN  RAdd(RMul(rest[k], m), RMul(e, RSub(I(1), m)))

calculate_ema(prices, period) ==
    IF Len(prices) < period THEN None
    ELSE IF period = 0 THEN Raise
    ELSE LET multiplier == R(2, period + 1)
             seed == RDiv(Sum(SliceFirst(prices, period)), I(period))
             rest == SliceFrom(prices, period)
         IN  EmaFold(rest, Len(rest), multiplier, seed)

\* without the avg_loss == 0 test: the division raises ZeroDivisionError
calculate_rsi_unguarded(prices, period) ==
    IF Len(prices) < period + 1 THEN I(50)
    ELSE IF period = 0 THEN Raise
    ELSE LET deltas == List([i \in 1..(Len(prices) - 1) |-> RSub(prices[i + 1], prices[i])])
             recent == SliceLast(deltas, period)
             gains  == List([i \in 1..Len(recent) |-> IF RSign(recent[i]) > 0 THEN recent[i] ELSE I(0)])
             losses == List([i \in 1..Len(recent) |-> IF RSign(recent[i]) < 0 THEN RNeg(recent[i]) ELSE I(0)])
             avg_gain == RDiv(Sum(gains), I(period))
             avg_loss == RDiv(Sum(losses), I(period))
         IN  IF avg_loss = I(0) THEN Raise
             ELSE LET rs == RDiv(avg_gain, avg_loss)
                  IN  RSub(I(100), RDiv(I(100), RAdd(I(1), rs)))

calculate_rsi(prices, period) ==
    IF Len(prices) < period + 1 THEN I(50)
    ELSE IF period = 0 THEN Raise
    ELSE LET deltas == List([i \in 1..(Len(prices) - 1) |-> RSub(prices[i + 1], prices[i])])
             recent == SliceLast(deltas, period)
             gains  == List([i \in 1..Len(recent) |-> IF RSign(recent[i]) > 0 THEN recent[i] ELSE I(0)])
             losses == List([i \in 1..Len(recent) |-> IF RSign(recent[i]) < 0 THEN RNeg(recent[i]) ELSE I(0)])
             avg_gain == RDiv(Sum(gains), I(period))
             avg_loss == RDiv(Sum(losses), I(period))
         IN  IF avg_loss = I(0) THEN I(100)
             ELSE LET rs == RDiv(avg_gain, avg_loss)
                  IN  RSub(I(100), RDiv(I(100), RAdd(I(1), rs)))

calculate_momentum(prices, period) ==
    IF Len(prices) < period THEN I(0)
    ELSE LET old == prices[Len(prices) - period + 1]
         IN  RMul(RDiv(RSub(prices[Len(prices)], old), old), I(100))

\* the deviation of the daily price differences instead of the daily returns
calculate_volatility_of_differences(prices, period) ==
    IF Len(prices) < period THEN I(0)
    ELSE LET n == Len(prices)
             cnt == IF period = 0 THEN 0 ELSE period - 1
             returns == List([j \in 1..cnt |->
                            RSub(prices[n - cnt + j], prices[n - cnt + j - 1])])
         IN  IF Len(returns) <= 1 THEN I(0)
             ELSE RMul(stdev(returns), I(100))

\* the returns of range(-period+1, 0): the last period-1 daily returns
calculate_volatility(prices, period) ==
    IF Len(prices) < period THEN I(0)
    ELSE LET n == Len(prices)
             cnt == IF period = 0 THEN 0 ELSE period - 1
             returns == List([j \in 1..cnt |->
                            RDiv(RSub(prices[n - cnt + j], prices[n - cnt + j - 1]),
                                 prices[n - cnt + j - 1])])
         IN  IF Len(returns) <= 1 THEN I(0)
             ELSE RMul(stdev(returns), I(100))

calculate_bollinger_bands(prices, period) ==
    IF Len(prices) < period THEN <<None, None, None>>
    ELSE LET sma == calculate_sma(prices, period)
             std_dev == stdev(SliceLast(prices, period))
         IN  IF sma = Raise \/ std_dev = Raise THEN <<Raise, Raise, Raise>>
             ELSE <<RAdd(sma, RMul(I(2), std_dev)), sma, RSub(sma, RMul(I(2), std_dev))>>

\* a variant that looks at the second half of the window only
detect_support_resistance_half(prices, window) ==
    IF Len(prices) < window THEN <<None, None>>
    ELSE LET recent == SliceLast(prices, window \div 2)
         IN  <<Least(recent, 1, Len(recent)), Greatest(recent, 1, Len(recent))>>

detect_support_resistance(prices, window) ==
    IF Len(prices) < window THEN <<None, None>>
    ELSE LET recent == SliceLast(prices, window)
         IN  <<Least(recent, 1, Len(recent)), Greatest(recent, 1, Len(recent))>>

calculate_macd(prices) ==
    IF Len(prices) < 26 THEN <<I(0), I(0), I(0)>>
    ELSE LET ema_12 == calculate_ema(prices, 12)
             ema_26 == calculate_ema(prices, 26)
             macd_line == RSub(ema_12, ema_26)
             \* one value per prefix prices[:i+1], i in range(26, len(prices));
             \* a prefix whose EMA is 0.0 is skipped (closes are positive: never)
             macd_values == List([j \in 1..(Len(prices) - 26) |->
                                RSub(calculate_ema(SubSeq(prices, 1, 26 + j), 12),
                                     calculate_ema(SubSeq(prices, 1, 26 + j), 26))])
             signal_line == IF Len(macd_values) >= 9 THEN calculate_ema(macd_values, 9) ELSE I(0)
             histogram == IF signal_line # I(0) THEN RSub(macd_line, signal_line) ELSE I(0)
         IN  <<macd_line, signal_line, histogram>>

\* Python truthiness of an Optional[float]: neither None nor 0.0
Truthy(x) == x # None /\ x # I(0)

----------------------------------------------------------------------------
\* StockPredictor.predict_price, block by block

\* 1. RSI Signal (30% weight)
\* a variant with the bounds 30, 40, 60 and 70 on the other side
rsi_component_inclusive(rsi) ==
    LET rsi_signal == IF RLe(rsi, I(30)) THEN I(3)
                      ELSE IF RLe(rsi, I(40)) THEN R(3, 2)
                      ELSE IF RLe(I(70), rsi) THEN I(-3)
                      ELSE IF RLe(I(60), rsi) THEN R(-3, 2)
                      ELSE I(0)
    IN  RMul(rsi_signal, R(30, 100))

rsi_component(rsi) ==
    LET rsi_signal == IF RLt(rsi, I(30)) THEN I(3)
                      ELSE IF RLt(rsi, I(40)) THEN R(3, 2)
                      ELSE IF RLt(I(70), rsi) THEN I(-3)
                      ELSE IF RLt(I(60), rsi) THEN R(-3, 2)
                      ELSE I(0)
    IN  RMul(rsi_signal, R(30, 100))

\* 2. Moving Average Crossovers (25% weight)
ma_crossover_component(sma_20, sma_50) ==
    LET ma_signal == IF Truthy(sma_20) /\ Truthy(sma_50)
                     THEN LET crossover_strength == RMul(RDiv(RSub(sma_20, sma_50), sma_50), I(100))
                          IN  RMul(Tanh(RDiv(crossover_strength, I(2))), I(3))
                     ELSE I(0)
    IN  RMul(ma_signal, R(25, 100))

\* 3. Momentum (20% weight)
momentum_component(momentum) ==
    RMul(RMul(Tanh(RDiv(momentum, I(10))), I(3)), R(20, 100))

\* 4. MACD Signal (15% weight)
\* a variant without the cap min(2, ..)
macd_component_uncapped(macd_histogram) ==
    RMul(RMul(macd_histogram, I(10)), R(15, 100))

macd_component(macd_histogram) ==
    LET capped == RMin(I(2), RMul(RAbs(macd_histogram), I(10)))
        macd_signal == IF RSign(macd_histogram) > 0 THEN capped ELSE RNeg(capped)
    IN  RMul(macd_signal, R(15, 100))

\* 5. Bollinger Band Position (10% weight); Raise is the ZeroDivisionError of
\* (current_price - lower_bb) / (upper_bb - lower_bb) when the bands coincide
\* a variant that leaves bb_signal at 0 when the bands coincide
bollinger_component_guarded(current_price, upper_bb, lower_bb) ==
    IF Truthy(upper_bb) /\ Truthy(lower_bb) /\ upper_bb # lower_bb
    THEN LET bb_position == RDiv(RSub(current_price, lower_bb), RSub(upper_bb, lower_bb))
             bb_signal == IF RLt(bb_position, R(2, 10)) THEN I(2)
                          ELSE IF RLt(R(8, 10), bb_position) THEN I(-2)
                          ELSE I(0)
         IN  RMul(bb_signal, R(10, 100))
    ELSE I(0)

bollinger_component(current_price, upper_bb, lower_bb) ==
    IF Truthy(upper_bb) /\ Truthy(lower_bb)
    THEN IF upper_bb = lower_bb THEN Raise
         ELSE LET bb_position == RDiv(RSub(current_price, lower_bb), RSub(upper_bb, lower_bb))
                  bb_signal == IF RLt(bb_position, R(2, 10)) THEN I(2)
                               ELSE IF RLt(R(8, 10), bb_position) THEN I(-2)
                               ELSE I(0)
              IN  RMul(bb_signal, R(10, 100))
    ELSE I(0)

\* the prediction_components dict
PredictionComponents(rsi, sma_20, sma_50, momentum, macd_histogram, current_price, upper_bb, lower_bb) ==
    [rsi |-> rsi_component(rsi),
     ma_crossover |-> ma_crossover_component(sma_20, sma_50),
     momentum |-> momentum_component(momentum),
     macd |-> macd_component(macd_histogram),
     bollinger |-> bollinger_component(current_price, upper_bb, lower_bb)]

\* prediction_score = sum(prediction_components.values())
PredictionScore(components) ==
    RAdd(RAdd(RAdd(RAdd(components.rsi, components.ma_crossover), components.momentum),
              components.macd),
         components.bollinger)

\* Determine signal and confidence, then adjust confidence for volatility
\* a variant whose bounds 1.5, 0.5, -1.5 and -0.5 belong to the outer label
SignalOfInclusive(prediction_score) ==
    IF RLe(R(3, 2), prediction_score) THEN "STRONG BUY"
    ELSE IF RLe(R(1, 2), prediction_score) THEN "BUY"
    ELSE IF RLe(prediction_score, R(-3, 2)) THEN "STRONG SELL"
    ELSE IF RLe(prediction_score, R(-1, 2)) THEN "SELL"
    ELSE "HOLD"

SignalOf(prediction_score) ==
    IF RLt(R(3, 2), prediction_score) THEN "STRONG BUY"
    ELSE IF RLt(R(1, 2), prediction_score) THEN "BUY"
    ELSE IF RLt(prediction_score, R(-3, 2)) THEN "STRONG SELL"
    ELSE IF RLt(prediction_score, R(-1, 2)) THEN "SELL"
    ELSE "HOLD"

\* the two reductions exchanged
VolatilityFactorSwapped(volatility) ==
    IF RLt(I(5), volatility) THEN R(92, 100)
    ELSE IF RLt(I(3), volatility) THEN R(85, 100)
    ELSE I(1)

\* the factors written as percentages
VolatilityFactorPercent(volatility) ==
    IF RLt(I(5), volatility) THEN I(85)
    ELSE IF RLt(I(3), volatility) THEN I(92)
    ELSE I(100)

VolatilityFactor(volatility) ==
    IF RLt(I(5), volatility) THEN R(85, 100)
    ELSE IF RLt(I(3), volatility) THEN R(92, 100)
    ELSE I(1)

ConfidenceOf(prediction_score, volatility) ==
    LET abs_score == RAbs(prediction_score)
        signal == SignalOf(prediction_score)
        base == IF signal \in {"STRONG BUY", "STRONG SELL"}
                THEN RMin(I(85), RAdd(I(55), RMul(abs_score, I(10))))
                ELSE IF signal \in {"BUY", "SELL"}
                THEN RMin(I(75), RAdd(I(50), RMul(abs_score, I(8))))
                ELSE RAdd(I(50), RMul(abs_score, I(5)))
    IN  RMul(base, VolatilityFactor(volatility))

\* Calculate trend score for display
\* a variant without the comparison of sma_50 with sma_200
TrendScoreFourVotes(current_price, sma_20, sma_50, sma_200) ==
    LET vote(c) == IF c THEN 1 ELSE -1
    IN  (IF Truthy(sma_20) THEN vote(RLt(sma_20, current_price)) ELSE 0)
      + (IF Truthy(sma_50) THEN vote(RLt(sma_50, current_price)) ELSE 0)
      + (IF Truthy(sma_200) THEN vote(RLt(sma_200, current_price)) ELSE 0)
      + (IF Truthy(sma_20) /\ Truthy(sma_50) THEN vote(RLt(sma_50, sma_20)) ELSE 0)

TrendScore(current_price, sma_20, sma_50, sma_200) ==
    LET vote(c) == IF c THEN 1 ELSE -1
    IN  (IF Truthy(sma_20) THEN vote(RLt(sma_20, current_price)) ELSE 0)
      + (IF Truthy(sma_50) THEN vote(RLt(sma_50, current_price)) ELSE 0)
      + (IF Truthy(sma_200) THEN vote(RLt(sma_200, current_price)) ELSE 0)
      + (IF Truthy(sma_20) /\ Truthy(sma_50) THEN vote(RLt(sma_50, sma_20)) ELSE 0)
      + (IF Truthy(sma_50) /\ Truthy(sma_200) THEN vote(RLt(sma_200, sma_50)) ELSE 0)

\* a line of the analysis: its sentence and the number formatted into it
Line(text, value) == [text |-> text, value |-> value]

\* a variant that says nothing about the trend when trend_score is 0 and puts
\* the volume line before the momentum line
generate_analysis_reordered(rsi, momentum, trend_score, volume_trend, prediction_score, volatility, macd_histogram) ==
    (IF RLt(rsi, I(30)) THEN <<Line("oversold", Round(rsi, 1))>>
     ELSE IF RLt(I(70), rsi) THEN <<Line("overbought", Round(rsi, 1))>>
     ELSE <<Line("rsi neutral", Round(rsi, 1))>>)
    \o (IF trend_score > 0 THEN <<Line("mild bullish bias", None)>>
        ELSE IF trend_score < 0 THEN <<Line("mild bearish bias", None)>>
        ELSE <<>>)
    \o (IF RLt(I(30), volume_trend) THEN <<Line("higher volume", None)>> ELSE <<>>)
    \o (IF RLt(I(5), momentum) THEN <<Line("strong positive momentum", Round(momentum, 1))>> ELSE <<>>)

\* prediction_score is accepted and not read
generate_analysis(rsi, momentum, trend_score, volume_trend, prediction_score, volatility, macd_histogram) ==
    LET rsiLine == IF RLt(rsi, I(30)) THEN <<Line("oversold", Round(rsi, 1))>>
                   ELSE IF RLt(I(70), rsi) THEN <<Line("overbought", Round(rsi, 1))>>
                   ELSE <<Line("rsi neutral", Round(rsi, 1))>>
        trendLine == IF trend_score >= 3 THEN <<Line("strong bullish trend", None)>>
                     ELSE IF trend_score <= -3 THEN <<Line("strong bearish trend", None)>>
                     ELSE IF trend_score > 0 THEN <<Line("mild bullish bias", None)>>
                     ELSE IF trend_score < 0 THEN <<Line("mild bearish bias", None)>>
                     ELSE <<Line("consolidation", None)>>
        momentumLine == IF RLt(I(5), momentum) THEN <<Line("strong positive momentum", Round(momentum, 1))>>
                        ELSE IF RLt(momentum, I(-5)) THEN <<Line("strong negative momentum", Round(momentum, 1))>>
                        ELSE IF RLt(RAbs(momentum), I(2)) THEN <<Line("low momentum", None)>>
                        ELSE <<>>
        volumeLine == IF RLt(I(30), volume_trend) THEN <<Line("higher volume", None)>>
                      ELSE IF RLt(volume_trend, I(-30)) THEN <<Line("lower volume", None)>>
                      ELSE <<>>
        volatilityLine == IF RLt(I(5), volatility) THEN <<Line("high volatility", Round(volatility, 1))>>
                          ELSE IF RLt(volatility, R(3, 2)) THEN <<Line("low volatility", None)>>
                          ELSE <<>>
        macdLine == IF RLt(R(1, 2), macd_histogram) THEN <<Line("macd bullish", None)>>
                    ELSE IF RLt(macd_histogram, R(-1, 2)) THEN <<Line("macd bearish", None)>>
                    ELSE <<>>
    IN  rsiLine \o trendLine \o momentumLine \o volumeLine \o volatilityLine \o macdLine

----------------------------------------------------------------------------
\* predict_price as a whole

Rats(ints) == List([i \in 1..Len(ints) |-> I(ints[i])])

\* round(x, 2) if x else None
RoundOpt(x) == IF Truthy(x) THEN Round(x, 2) ELSE None

NoIndicators ==
    [sma_20 |-> None, sma_50 |-> None, ema_20 |-> None, rsi |-> None, momentum |-> None,
     volatility |-> None, trend_score |-> 0, support |-> None, resistance |-> None,
     volume_trend |-> None]

\* the value predict_price returns on failure (Python None)
NoResult ==
    [kind |-> "None", current_price |-> None, predictions |-> <<>>, signal |-> "",
     confidence |-> None, indicators |-> NoIndicators, prices |-> <<>>, volumes |-> <<>>,
     analysis |-> <<>>]

\* a variant of the projection loop without day_factor
RECURSIVE ProjectionEven(_, _, _, _, _, _)
ProjectionEven(k, days_ahead, daily_change_rate, volatility, current_price, jitter) ==
    IF k <= 0 THEN [cumulative_change |-> I(0), predictions |-> <<>>]
    ELSE LET before == ProjectionEven(k - 1, days_ahead, daily_change_rate, volatility,
                                      current_price, jitter)
             cumulative_change == RAdd(before.cumulative_change,
                                       RAdd(daily_change_rate, RMul(RMul(jitter[k], volatility), R(1, 10))))
             predicted_price == RMul(current_price, RAdd(I(1), RDiv(cumulative_change, I(100))))
         IN  [cumulative_change |-> cumulative_change,
              predictions |-> Append(before.predictions,
                                     [day |-> k, price |-> Round(predicted_price, 2),
                                      change_pct |-> Round(cumulative_change, 2)])]

\* the projection loop: the entries for day 1..k, and the cumulative change after day k
RECURSIVE Projection(_, _, _, _, _, _)
Projection(k, days_ahead, daily_change_rate, volatility, current_price, jitter) ==
    IF k <= 0 THEN [cumulative_change |-> I(0), predictions |-> <<>>]
    ELSE LET before == Projection(k - 1, days_ahead, daily_change_rate, volatility,
                                  current_price, jitter)
             random_factor == RMul(RMul(jitter[k], volatility), R(1, 10))
             day_factor == RAdd(I(1), RMul(R(k, days_ahead), R(2, 10)))
             day_change == RAdd(RMul(daily_change_rate, day_factor), random_factor)
             cumulative_change == RAdd(before.cumulative_change, day_change)
             predicted_price == RMul(current_price, RAdd(I(1), RDiv(cumulative_change, I(100))))
         IN  [cumulative_change |-> cumulative_change,
              predictions |-> Append(before.predictions,
                                     [day |-> k, price |-> Round(predicted_price, 2),
                                      change_pct |-> Round(cumulative_change, 2)])]

NoAnalysis ==
    [kind |-> "None", prices |-> <<>>, volumes |-> <<>>, current_price |-> None,
     sma_20 |-> None, sma_50 |-> None, sma_200 |-> None, ema_20 |-> None, rsi |-> None,
     momentum |-> None, volatility |-> None, macd_histogram |-> None, support |-> None,
     resistance |-> None, volume_trend |-> None, prediction_score |-> None]

\* predict_price from "current_price = prices[-1]" up to "Calculate total
\* prediction score": the indicators and the five weighted components.
\* kind = "None" when an exception has been raised by then, which the handler at
\* the end of the function turns into the return value None.  momentum_long,
\* trend_strength and recent_change are computed there too, are only printed
\* and do not raise for positive closes: they are left out
AnalyseBars(hist) ==
    LET prices == Rats(hist.closes)
        volumes == hist.volumes
        current_price == prices[Len(prices)]
        sma_20 == calculate_sma(prices, 20)
        sma_50 == calculate_sma(prices, 50)
        sma_200 == calculate_sma(prices, 200)
        ema_20 == calculate_ema(prices, 20)
        rsi == calculate_rsi(prices, 14)
        momentum == calculate_momentum(prices, 10)
        volatility == calculate_volatility(prices, 20)
        macd == calculate_macd(prices)
        bands == calculate_bollinger_bands(prices, 20)
        levels == detect_support_resistance(prices, 20)
        volume_sum == Sum(Rats(SliceLast(volumes, 20)))
        avg_volume == IF Len(volumes) >= 20 THEN RDiv(volume_sum, I(20))
                      ELSE RDiv(volume_sum, I(Len(volumes)))
        components == PredictionComponents(rsi, sma_20, sma_50, momentum, macd[3],
                                           current_price, bands[1], bands[3])
    IN  IF avg_volume = I(0) THEN NoAnalysis       \* ZeroDivisionError in volume_trend
        ELSE IF components.bollinger = Raise THEN NoAnalysis  \* ZeroDivisionError in bb_position
        ELSE
        [kind |-> "Analysis", prices |-> prices, volumes |-> volumes,
         current_price |-> current_price,
         sma_20 |-> sma_20, sma_50 |-> sma_50, sma_200 |-> sma_200, ema_20 |-> ema_20,
         rsi |-> rsi, momentum |-> momentum, volatility |-> volatility,
         macd_histogram |-> macd[3], support |-> levels[1], resistance |-> levels[2],
         volume_trend |-> RMul(RDiv(RSub(I(volumes[Len(volumes)]), avg_volume), avg_volume), I(100)),
         prediction_score |-> PredictionScore(components)]

\* a default bundle: every indicator at the value it has without data
DefaultAnalysis ==
    [NoAnalysis EXCEPT !.kind = "Analysis", !.current_price = I(0), !.rsi = I(50),
                       !.momentum = I(0), !.volatility = I(0), !.macd_histogram = I(0),
                       !.volume_trend = I(0), !.prediction_score = I(0)]

\* the guard left out: an empty or failed fetch is analysed like any other
AnalyseUnguarded(hist) ==
    IF hist.raises \/ Len(hist.closes) = 0 THEN DefaultAnalysis ELSE AnalyseBars(hist)

\* predict_price up to the score: the fetch and its guard, then the indicators
Analyse(hist) ==
    IF hist.raises THEN NoAnalysis                    \* the provider call raised
    ELSE IF Len(hist.closes) = 0 THEN NoAnalysis      \* hist.empty
    ELSE AnalyseBars(hist)

\* predict_price from "Convert to percentage change" on: the projection, the
\* classification and the response.  jitter[d] is the value
\* np.random.uniform(-0.2, 0.2) returns on day d
Respond(a, days_ahead, jitter) ==
    IF a.kind = "None" THEN NoResult
    ELSE
    LET base_change == RMul(a.prediction_score, RDiv(a.volatility, I(5)))
        momentum_influence == RMul(a.momentum, R(1, 10))
        \* days_ahead = 0: numpy float division gives inf or nan, no exception,
        \* and the loop never runs
        daily_change_rate == IF days_ahead = 0 THEN I(0)
                             ELSE RDiv(RAdd(base_change, momentum_influence), I(days_ahead))
        projection == Projection(days_ahead, days_ahead, daily_change_rate, a.volatility,
                                 a.current_price, jitter)
        trend_score == TrendScore(a.current_price, a.sma_20, a.sma_50, a.sma_200)
        shown == SliceLast(a.prices, 60)
    IN  [kind |-> "Response",
         current_price |-> Round(a.current_price, 2),
         predictions |-> projection.predictions,
         signal |-> SignalOf(a.prediction_score),
         confidence |-> Round(ConfidenceOf(a.prediction_score, a.volatility), 1),
         indicators |->
             [sma_20 |-> RoundOpt(a.sma_20), sma_50 |-> RoundOpt(a.sma_50),
              ema_20 |-> RoundOpt(a.ema_20), rsi |-> Round(a.rsi, 2),
              momentum |-> Round(a.momentum, 2), volatility |-> Round(a.volatility, 2),
              trend_score |-> trend_score,
              support |-> RoundOpt(a.support), resistance |-> RoundOpt(a.resistance),
              volume_trend |-> Round(a.volume_trend, 2)],
         prices |-> List([i \in 1..Len(shown) |-> Round(shown[i], 2)]),
         volumes |-> SliceLast(a.volumes, 60),
         analysis |-> generate_analysis(a.rsi, a.momentum, trend_score, a.volume_trend,
                                        a.prediction_score, a.volatility,
                                        a.macd_histogram)]

\* the analysis is computed once and the response built from its value
predict_price(hist, days_ahead, jitter) ==
    CHOOSE result \in {Respond(a, days_ahead, jitter) : a \in {Analyse(hist)}} : TRUE

----------------------------------------------------------------------------
\* The histories the provider can hold, and the arguments of the calls

MaxBars == 20           \* longest history
MaxDays == 2            \* longest horizon
MinBars == 20           \* the 20-bar window of SMA-20, volatility, Bollinger, volume

CloseVals == {30, 40, 45, 48, 60}
Tails == [1..2 -> CloseVals]
BarLens == {1, MinBars - 1} \cup (MinBars..MaxBars)

\* n closes: 40 throughout, then the tail
Closes(n, tail) ==
    List([i \in 1..n |-> IF i > n - Len(tail) THEN tail[i - (n - Len(tail))] ELSE 40])

\* n volumes: no trading at all, steady trading, or a spike on the last day
Volumes(n, pattern) ==
    List([i \in 1..n |-> IF pattern = "zero" THEN 0
                          ELSE IF pattern = "spike" /\ i = n THEN 2000 ELSE 1000])

\* MinBars closes: 1 on the first five days, 40 ever since
Jumped == List([i \in 1..MinBars |-> IF i <= 5 THEN 1 ELSE 40])

Histories ==
    {[raises |-> TRUE, closes |-> <<>>, volumes |-> <<>>],
     [raises |-> FALSE, closes |-> <<>>, volumes |-> <<>>],
     [raises |-> FALSE, closes |-> Jumped, volumes |-> Volumes(MinBars, "steady")]}
    \cup {[raises |-> FALSE, closes |-> Closes(n, t), volumes |-> Volumes(n, v)] :
              n \in BarLens, t \in Tails, v \in {"zero", "steady", "spike"}}

\* the values np.random.uniform(-0.2, 0.2) is sampled at
Jitters == {R(-2, 10), R(1, 10)}

JitterSeqs(days) == [1..days -> Jitters]

ApiMinDays == 1
ApiMaxDays == 30

\* the days_ahead a direct caller passes, and the days a client asks for
DirectDays == {-1, 0} \cup (1..MaxDays)
QueryDays == DirectDays \cup {ApiMaxDays + 1}

NoCall == [state |-> "none", days_ahead |-> 0, result |-> NoResult]

NoHttp == [status |-> 0, days |-> 0]

\* the field of an indicator function that has not been called
Unset == <<0, -2>>

NoFn == [prices |-> <<>>, period |-> 0, sma |-> Unset, ema |-> Unset, rsi |-> Unset,
         volatility |-> Unset, bands |-> <<Unset, Unset, Unset>>]

\* the classification block has not been evaluated
NoCls == [prediction_score |-> I(0), calls |-> <<>>]

\* nothing outside predict_price and the indicators has run
NoConc == [rng |-> <<>>, threads |-> <<>>]
NoCmp == [market |-> <<>>, symbols |-> <<>>, jitter |-> None, analysed |-> <<>>, status |-> 0, results |-> <<>>]
NoTop == [stocks |-> <<>>, k |-> 0, called |-> {}, gainers |-> <<>>, losers |-> <<>>]
NoLive == [market |-> {}, endpoint |-> "none", symbols |-> <<>>, status |-> 0, data |-> <<>>]
NoSc == [given |-> <<>>, components |-> <<>>, prediction_score |-> Unset, runs |-> <<>>]
NoMc == [prices |-> <<>>, result |-> Unset]
NoTr == [prices |-> <<>>, done |-> FALSE, trend_score |-> 0]

Rest ==
    /\ conc = NoConc /\ cmp = NoCmp /\ top = NoTop /\ live = NoLive
    /\ sc = NoSc /\ mc = NoMc /\ tr = NoTr

Init ==
    /\ provider \in Histories
    /\ analysis = Analyse(provider)
    /\ call = NoCall
    /\ http = NoHttp
    /\ fn = NoFn
    /\ cls = NoCls
    /\ Rest

\* some caller runs predictor.predict_price(symbol, days_ahead) directly
PredictPrice(days_ahead) ==
    /\ \E jitter \in JitterSeqs(days_ahead) :
          call' = [state |-> "returned", days_ahead |-> days_ahead,
                   result |-> Respond(analysis, days_ahead, jitter)]
    /\ http' = NoHttp
    /\ UNCHANGED <<provider, analysis, fn, cls>>
    /\ UNCHANGED others

\* GET /api/predict?symbol=..&days=..; days outside 1..30 is rejected by the
\* Query(ge=1, le=30) validation before the handler runs
ApiPredictRejected(days) ==
    /\ days < ApiMinDays \/ days > ApiMaxDays
    /\ call' = NoCall
    /\ http' = [status |-> 422, days |-> days]
    /\ UNCHANGED <<provider, analysis, fn, cls>>
    /\ UNCHANGED others

\* the handler: predict_price, then 404 when it returned None
ApiPredict(days) ==
    /\ days >= ApiMinDays /\ days <= ApiMaxDays
    /\ \E jitter \in JitterSeqs(days) :
          LET result == Respond(analysis, days, jitter)
          IN  /\ call' = [state |-> "returned", days_ahead |-> days, result |-> result]
              /\ http' = [status |-> IF result.kind = "None" THEN 404 ELSE 200, days |-> days]
    /\ UNCHANGED <<provider, analysis, fn, cls>>
    /\ UNCHANGED others

Next ==
    \/ \E d \in DirectDays : PredictPrice(d)
    \/ \E d \in QueryDays : ApiPredictRejected(d)
    \/ \E d \in QueryDays : ApiPredict(d)

Spec == Init /\ [][Next]_vars

----------------------------------------------------------------------------
\* The indicator functions called on their own

MaxLen == 3             \* longest of the short price lists
MaxPeriod == 4          \* largest period used with the short price lists
MaxGeoPeriod == 4       \* largest period used with the geometric series

RECURSIVE RPow(_, _)
RPow(x, k) == IF k = 0 THEN I(1) ELSE RMul(x, RPow(x, k - 1))

\* every list of at most MaxLen prices out of 1, 2, 3
ShortLists == UNION {[1..n -> {I(1), I(2), I(3)}] : n \in 0..MaxLen}

\* prices [100]*19 + [130]: flat, then a jump on the last day
LastDayJump == List([i \in 1..MinBars |-> IF i = MinBars THEN I(130) ELSE I(100)])

\* MinBars closes with the same return every day, ending at 1: 1/ratio^19, .., 1
Geometric(ratio) == List([i \in 1..MinBars |-> RPow(RDiv(I(1), ratio), MinBars - i)])

Ratios == {I(1), R(3, 2), I(2)}

\* the arguments of one call: the prices and the period
Args(prices, period) == [prices |-> prices, period |-> period]

ShortArgs == {Args(p, n) : p \in ShortLists, n \in 0..MaxPeriod}

\* the periods predict_price uses: 14 for the RSI, 20 for the others
WindowArgs ==
    {Args(Rats(Closes(n, t)), k) : n \in {MinBars - 1, MinBars}, t \in Tails, k \in {14, 20}}
    \cup {Args(LastDayJump, 14), Args(LastDayJump, 20)}

GeometricArgs == {Args(Geometric(r), n) : r \in Ratios, n \in 2..MaxGeoPeriod}

\* the lists the EMA is folded over: those whose fold stays within the integers
\* of the model checker
FoldArgs == ShortArgs \cup WindowArgs
AllArgs == FoldArgs \cup GeometricArgs

\* each function is called with the arguments held in fn; its return value is
\* kept next to them
CallSma ==
    /\ fn' = [fn EXCEPT !.sma = calculate_sma(fn.prices, fn.period)]
    /\ UNCHANGED <<provider, analysis, call, http, cls>>
    /\ UNCHANGED others

CallEma ==
    /\ Args(fn.prices, fn.period) \in FoldArgs
    /\ fn' = [fn EXCEPT !.ema = calculate_ema(fn.prices, fn.period)]
    /\ UNCHANGED <<provider, analysis, call, http, cls>>
    /\ UNCHANGED others

CallRsi ==
    /\ fn' = [fn EXCEPT !.rsi = calculate_rsi(fn.prices, fn.period)]
    /\ UNCHANGED <<provider, analysis, call, http, cls>>
    /\ UNCHANGED others

CallVolatility ==
    /\ fn' = [fn EXCEPT !.volatility = calculate_volatility(fn.prices, fn.period)]
    /\ UNCHANGED <<provider, analysis, call, http, cls>>
    /\ UNCHANGED others

CallBollinger ==
    /\ fn' = [fn EXCEPT !.bands = calculate_bollinger_bands(fn.prices, fn.period)]
    /\ UNCHANGED <<provider, analysis, call, http, cls>>
    /\ UNCHANGED others

\* no request is being served: the provider is not consulted
Idle ==
    /\ provider = [raises |-> FALSE, closes |-> <<>>, volumes |-> <<>>]
    /\ analysis = NoAnalysis
    /\ call = NoCall
    /\ http = NoHttp

InitInd ==
    /\ Idle
    /\ \E a \in AllArgs : fn = [NoFn EXCEPT !.prices = a.prices, !.period = a.period]
    /\ cls = NoCls
    /\ Rest

NextInd == CallSma \/ CallEma \/ CallRsi \/ CallVolatility \/ CallBollinger

SpecInd == InitInd /\ [][NextInd]_vars

----------------------------------------------------------------------------
\* The signal-and-confidence block of predict_price evaluated on its own: one
\* prediction_score, one volatility after the other

MaxScoreQuarters == 12  \* the scores are k/4 for |k| <= MaxScoreQuarters

Scores == {R(k, 4) : k \in (0 - MaxScoreQuarters)..MaxScoreQuarters}

\* volatilities at and on either side of the thresholds 3 and 5
Volatilities == {I(0), I(3), R(31, 10), I(5), R(51, 10), I(8)}

Classification(prediction_score, volatility) ==
    [volatility |-> volatility,
     signal |-> SignalOf(prediction_score),
     confidence |-> ConfidenceOf(prediction_score, volatility),
     reported |-> Round(ConfidenceOf(prediction_score, volatility), 1)]

\* the block runs at cls.prediction_score; the evaluation before it is kept
Classify(volatility) ==
    /\ cls' = [cls EXCEPT !.calls =
                  SliceLast(Append(@, Classification(cls.prediction_score, volatility)), 2)]
    /\ UNCHANGED <<provider, analysis, call, http, fn>>
    /\ UNCHANGED others

InitConf ==
    /\ Idle
    /\ fn = NoFn
    /\ Rest
    /\ \E score \in Scores : cls = [prediction_score |-> score, calls |-> <<>>]

NextConf == \E v \in Volatilities : Classify(v)

SpecConf == InitConf /\ [][NextConf]_vars

----------------------------------------------------------------------------
\* Properties of predict_price and /api/predict, checked under Spec

\* a well-formed series: one volume per close, positive closes, volumes >= 0
\* (the bars are in date order by construction)
WellFormed(hist) ==
    /\ ~hist.raises
    /\ Len(hist.volumes) = Len(hist.closes)
    /\ \A i \in 1..Len(hist.closes) : hist.closes[i] > 0 /\ hist.volumes[i] >= 0

Returned == call.state = "returned"

InRange(x, lo, hi) == IsNum(x) /\ RLe(I(lo), x) /\ RLe(x, I(hi))

\* C1: for every well-formed series of at least 20 bars and every horizon >= 1,
\* predict_price returns a result whose predictions are one per day of the
\* horizon, numbered 1, 2, .., horizon
C1_ResultForEveryLongSeries ==
    (Returned /\ WellFormed(provider) /\ Len(provider.closes) >= MinBars
              /\ call.days_ahead >= 1)
    => /\ call.result.kind = "Response"
       /\ Len(call.result.predictions) = call.days_ahead
       /\ \A i \in 1..Len(call.result.predictions) : call.result.predictions[i].day = i

\* C1, the failing case: 20 bars that all close at 40 with steady volume, one
\* day ahead, and predict_price has returned None
C1_FlatSeriesFails ==
    /\ Returned /\ call.days_ahead = 1
    /\ provider.closes = Closes(MinBars, <<40, 40>>)
    /\ provider.volumes = Volumes(MinBars, "steady")
    /\ call.result.kind = "None"

\* C2: for every non-empty series of fewer than 20 bars predict_price returns
\* no result
C2_ShortSeriesFailsFast ==
    (Returned /\ ~provider.raises /\ Len(provider.closes) > 0
              /\ Len(provider.closes) < MinBars)
    => call.result.kind = "None"

\* C2, the failing case: 19 bars that all close at 40, and the response is built from the defaults
\* (no SMA-20, no support, volatility 0)
C2_ShortSeriesAnswered ==
    /\ Returned /\ call.days_ahead = 1
    /\ provider.closes = Closes(MinBars - 1, <<40, 40>>)
    /\ provider.volumes = Volumes(MinBars - 1, "steady")
    /\ call.result.kind = "Response"
    /\ call.result.indicators.sma_20 = None
    /\ call.result.indicators.support = None
    /\ call.result.indicators.volatility = I(0)

\* C3: when the provider raises or returns an empty series, predict_price
\* returns None, never a response, and the handler of /api/predict, whenever it
\* runs, answers 404
C3_NoDataIsFailure ==
    (provider.raises \/ Len(provider.closes) = 0)
    => /\ Returned => call.result = NoResult
       /\ http.status # 200
       /\ (http.status # 0 /\ http.days >= ApiMinDays /\ http.days <= ApiMaxDays)
              => http.status = 404

\* C3, its case: the provider has raised and the endpoint has answered 404
C3_ProviderRaisedAnswered404 ==
    /\ provider.raises
    /\ Returned /\ call.result = NoResult
    /\ http.status = 404

\* C4: predict_price called with days_ahead <= 0 on a valid series of at least
\* 20 bars returns no response
C4_NonPositiveHorizonFails ==
    (Returned /\ call.days_ahead <= 0 /\ WellFormed(provider)
              /\ Len(provider.closes) >= MinBars)
    => call.result.kind = "None"

\* C4, the failing case: days_ahead = -1, and a response without predictions
C4_EmptyProjectionReturned ==
    /\ Returned /\ call.days_ahead = -1
    /\ WellFormed(provider) /\ Len(provider.closes) >= MinBars
    /\ call.result.kind = "Response"
    /\ call.result.predictions = <<>>

C10_SameInputsSameResult ==
    [][(Returned /\ call'.state = "returned" /\ call'.days_ahead = call.days_ahead)
           => call'.result = call.result]_vars

\* C12: every projection point predict_price returns for a series of positive
\* closes and a horizon >= 1 has a strictly positive price
C12_ProjectedPricesPositive ==
    (Returned /\ call.result.kind = "Response" /\ WellFormed(provider)
              /\ call.days_ahead >= 1)
    => \A i \in 1..Len(call.result.predictions) :
           RSign(call.result.predictions[i].price) > 0

\* C12, the failing case: the series that went from 1 to 40 fifteen days ago,
\* one day ahead, and a price below zero is projected
C12_NegativePriceProjected ==
    /\ Returned /\ call.days_ahead = 1
    /\ provider.closes = Jumped
    /\ call.result.kind = "Response"
    /\ call.result.signal = "SELL"
    /\ RSign(call.result.predictions[1].price) < 0

\* the last 20 closes of the series are all the same
FlatTrailingWindow(closes) ==
    /\ Len(closes) >= 20
    /\ \A i \in (Len(closes) - 19)..Len(closes) : closes[i] = closes[Len(closes)]

\* C24: for every series of at least 20 bars whose last 20 closes are equal,
\* predict_price returns None and never a response
C24_FlatWindowGivesNone ==
    (Returned /\ ~provider.raises /\ FlatTrailingWindow(provider.closes))
    => call.result.kind = "None"

\* C24: a flat series with a volume spike, two days ahead: the bands coincide
\* and None is returned
C24_CoincidingBandsReturnedNone ==
    /\ Returned /\ call.days_ahead = 2
    /\ FlatTrailingWindow(provider.closes)
    /\ provider.volumes = Volumes(Len(provider.closes), "spike")
    /\ LET bands == calculate_bollinger_bands(Rats(provider.closes), 20)
       IN  bands[1] = bands[3] /\ Truthy(bands[1])
    /\ call.result.kind = "None"

\* C25: with at least 20 prices the indicators of one call satisfy
\* support <= current_price <= resistance, support <= sma_20 <= resistance and
\* lower band <= middle band <= upper band, the middle band being sma_20; the
\* rounded values of the response keep the order
C25_IndicatorsOrdered ==
    (analysis.kind = "Analysis" /\ Len(analysis.prices) >= 20) =>
        LET a == analysis
            bands == calculate_bollinger_bands(a.prices, 20)
            Ordered(x, y, z) == IsNum(x) /\ IsNum(y) /\ IsNum(z) /\ RLe(x, y) /\ RLe(y, z)
        IN  /\ Ordered(a.support, a.current_price, a.resistance)
            /\ Ordered(a.support, a.sma_20, a.resistance)
            /\ Ordered(bands[3], bands[2], bands[1])
            /\ bands[2] = a.sma_20
            /\ (Returned /\ call.result.kind = "Response") =>
                   /\ Ordered(call.result.indicators.support, call.result.current_price,
                              call.result.indicators.resistance)
                   /\ Ordered(call.result.indicators.support, call.result.indicators.sma_20,
                              call.result.indicators.resistance)

\* C25: the series that went from 1 to 40: support 1, sma_20 30.25,
\* resistance 40, and bands apart
C25_AverageBetweenTheLevels ==
    /\ Returned /\ call.result.kind = "Response" /\ call.days_ahead = 2
    /\ provider.closes = Jumped
    /\ call.result.indicators.support = I(1)
    /\ call.result.indicators.sma_20 = R(3025, 100)
    /\ call.result.indicators.resistance = I(40)
    /\ LET bands == calculate_bollinger_bands(analysis.prices, 20)
       IN  RLt(bands[3], bands[2]) /\ RLt(bands[2], bands[1])

----------------------------------------------------------------------------
\* Properties of the indicator functions, checked under SpecInd

PositivePrices(prices) == \A i \in 1..Len(prices) : RSign(prices[i]) > 0

\* none of the last period deltas is negative
NoTrailingLoss(prices, period) ==
    \A i \in 1..(Len(prices) - 1) :
        i >= Len(prices) - period => RLe(prices[i], prices[i + 1])

\* C5: for positive prices and a period >= 1 calculate_rsi returns a value in
\* [0, 100]; exactly 100 when none of the trailing period deltas is negative,
\* exactly 50 when fewer than period + 1 prices are given
C5_RsiInRange ==
    (fn.rsi # Unset /\ fn.period >= 1 /\ PositivePrices(fn.prices))
    => /\ InRange(fn.rsi, 0, 100)
       /\ (Len(fn.prices) >= fn.period + 1 /\ NoTrailingLoss(fn.prices, fn.period))
              => fn.rsi = I(100)
       /\ Len(fn.prices) < fn.period + 1 => fn.rsi = I(50)

\* C5, its case: the RSI-14 of [100]*19 + [130] is 100
C5_LastDayJumpGives100 ==
    /\ fn.prices = LastDayJump /\ fn.period = 14
    /\ fn.rsi = I(100)

\* C6: with fewer prices than the period, calculate_sma and calculate_ema return
\* None and calculate_bollinger_bands returns (None, None, None); none raises
C6_UndefinedBelowPeriod ==
    Len(fn.prices) < fn.period
    => /\ fn.sma \in {Unset, None}
       /\ fn.ema \in {Unset, None}
       /\ fn.bands \in {<<Unset, Unset, Unset>>, <<None, None, None>>}

\* C6, its case: the three functions called on the empty list with period 1
C6_EmptyListUndefined ==
    /\ fn.prices = <<>> /\ fn.period = 1
    /\ fn.sma = None /\ fn.ema = None /\ fn.bands = <<None, None, None>>

\* every daily return of the series is the same
EqualReturns(prices) ==
    \A i \in 2..(Len(prices) - 1) :
        RDiv(prices[i + 1], prices[i]) = RDiv(prices[2], prices[1])

\* no close is below the one before it
Rising(prices) == \A i \in 1..(Len(prices) - 1) : RLe(prices[i], prices[i + 1])

\* the last period closes are all the same
FlatWindow(prices, period) ==
    \A i \in 1..Len(prices) : i > Len(prices) - period => prices[i] = prices[Len(prices)]

BandWidth == RSub(fn.bands[1], fn.bands[3])

\* C7 as stated: for a rising series of at least 20 closes with equal daily
\* returns, calculate_volatility returns 0 and the Bollinger band width is 0
C7_RisingSeriesZeroWidth ==
    (Len(fn.prices) >= MinBars /\ Rising(fn.prices) /\ EqualReturns(fn.prices))
    => /\ fn.volatility # Unset => fn.volatility = I(0)
       /\ fn.bands[1] # Unset => (IsNum(fn.bands[1]) /\ BandWidth = I(0))

\* C7 amended: for a series of at least 20 closes with equal daily returns
\* calculate_volatility returns 0; the Bollinger band width is 0 when the
\* closes of the window are all the same and positive otherwise, so it is
\* positive for a strictly rising series
C7_ZeroVolatilityWidthOfSpread ==
    (Len(fn.prices) >= MinBars /\ fn.period >= 2)
    => /\ (fn.volatility # Unset /\ EqualReturns(fn.prices)) => fn.volatility = I(0)
       /\ fn.bands[1] # Unset
              => /\ IsNum(fn.bands[1]) /\ IsNum(fn.bands[3])
                 /\ IF FlatWindow(fn.prices, fn.period)
                    THEN BandWidth = I(0) ELSE RSign(BandWidth) > 0

\* C7, its case: closes doubling every day, period 3: volatility 0, bands apart
C7_DoublingSeriesWideBands ==
    /\ fn.prices = Geometric(I(2)) /\ fn.period = 3
    /\ fn.volatility = I(0)
    /\ fn.bands[1] # Unset /\ RSign(BandWidth) > 0

----------------------------------------------------------------------------
\* Properties of the confidence, checked under SpecConf

\* the reduction the confidence is given at a volatility
Reduction(volatility) ==
    IF RLt(I(5), volatility) THEN R(85, 100)
    ELSE IF RLt(I(3), volatility) THEN R(92, 100) ELSE I(1)

\* C9: at a fixed prediction_score the confidence does not rise with the
\* volatility, a volatility above 5 gives a strictly lower confidence than one
\* of at most 5, and the confidence is that of a calm series times 0.85 above
\* 5, times 0.92 above 3, times 1 otherwise
C9_ConfidenceFallsWithVolatility ==
    Len(cls.calls) = 2
    => LET a == cls.calls[1]
           b == cls.calls[2]
       IN  /\ RLe(a.volatility, b.volatility)
                  => (RLe(b.confidence, a.confidence) /\ RLe(b.reported, a.reported))
           /\ (RLe(a.volatility, I(5)) /\ RLt(I(5), b.volatility))
                  => (RLt(b.confidence, a.confidence) /\ RLt(b.reported, a.reported))
           /\ RLe(a.volatility, I(3))
                  => b.confidence = RMul(a.confidence, Reduction(b.volatility))

\* C9, its case: score 1.75 at volatility 5 and then at volatility 5.1
C9_AcrossTheThreshold ==
    /\ cls.prediction_score = R(7, 4)
    /\ Len(cls.calls) = 2
    /\ cls.calls[1].volatility = I(5) /\ cls.calls[2].volatility = R(51, 10)
    /\ RLt(cls.calls[2].confidence, cls.calls[1].confidence)

\* C18: the signal is a total function of the score: STRONG BUY above 1.5, BUY
\* above 0.5 up to 1.5, HOLD from -0.5 to 0.5, SELL from -1.5 to below -0.5,
\* STRONG SELL below -1.5; every score falls in exactly one of the five ranges
C18_SignalByScoreRange ==
    LET s == cls.prediction_score
        ranges == [label \in {"STRONG BUY", "BUY", "HOLD", "SELL", "STRONG SELL"} |->
                      CASE label = "STRONG BUY" -> RLt(R(15, 10), s)
                        [] label = "BUY" -> RLt(R(5, 10), s) /\ RLe(s, R(15, 10))
                        [] label = "HOLD" -> RLe(R(-5, 10), s) /\ RLe(s, R(5, 10))
                        [] label = "SELL" -> RLe(R(-15, 10), s) /\ RLt(s, R(-5, 10))
                        [] label = "STRONG SELL" -> RLt(s, R(-15, 10))]
    IN  \A i \in 1..Len(cls.calls) :
            /\ cls.calls[i].signal \in DOMAIN ranges
            /\ \A label \in DOMAIN ranges : ranges[label] <=> (cls.calls[i].signal = label)

\* C18: the scores exactly on a bound: 1.5 is a BUY, -1.5 a SELL, -0.5 and 0.5
\* a HOLD; here the block has run at 1.5
C18_OnTheBound ==
    /\ cls.prediction_score = R(3, 2)
    /\ Len(cls.calls) >= 1
    /\ cls.calls[1].signal = "BUY"

----------------------------------------------------------------------------
\* predict_price running in two threads.  np.random.uniform draws from numpy's
\* one generator of the process: conc.rng is the sequence of values it will
\* return next, and every draw takes the first of them

Threads == {1, 2}

\* the histories of the symbols the threads ask for
ConcHistories ==
    {[raises |-> FALSE, closes |-> Closes(MinBars, t), volumes |-> Volumes(MinBars, "steady")] :
         t \in {<<30, 30>>, <<45, 60>>}}

\* the generator as seeded one way or the other: the next 2 * MaxDays values
Streams ==
    {[i \in 1..(2 * MaxDays) |-> IF (i + seed) % 2 = 0 THEN R(-2, 10) ELSE R(1, 10)] :
         seed \in {0, 1}}

IdleThread ==
    [pc |-> "idle", analysis |-> NoAnalysis, days_ahead |-> 0, seen |-> <<>>,
     jitter |-> <<>>, result |-> NoResult]

\* thread t enters predict_price: the fetch, the indicators and the score touch
\* nothing outside the call; seen is the generator as the call finds it
Enter(t, hist, days_ahead) ==
    /\ conc.threads[t].pc = "idle"
    /\ conc' = [conc EXCEPT !.threads[t] =
                   [pc |-> "loop", analysis |-> Analyse(hist), days_ahead |-> days_ahead,
                    seen |-> conc.rng, jitter |-> <<>>, result |-> NoResult]]
    /\ UNCHANGED <<provider, analysis, call, http, fn, cls, cmp, top, live, sc, mc, tr>>

\* one pass of the loop "for day in range(1, days_ahead + 1)": one draw
Draw(t) ==
    /\ conc.threads[t].pc = "loop"
    /\ conc.threads[t].analysis.kind # "None"
    /\ Len(conc.threads[t].jitter) < conc.threads[t].days_ahead
    /\ conc' = [conc EXCEPT !.rng = Tail(@),
                            !.threads[t].jitter = Append(@, Head(conc.rng))]
    /\ UNCHANGED <<provider, analysis, call, http, fn, cls, cmp, top, live, sc, mc, tr>>

\* the loop is over (or the analysis has failed): the call returns
Leave(t) ==
    /\ conc.threads[t].pc = "loop"
    /\ \/ conc.threads[t].analysis.kind = "None"
       \/ Len(conc.threads[t].jitter) = conc.threads[t].days_ahead
    /\ conc' = [conc EXCEPT !.threads[t].pc = "done",
                            !.threads[t].result =
                                Respond(conc.threads[t].analysis, conc.threads[t].days_ahead,
                                        conc.threads[t].jitter)]
    /\ UNCHANGED <<provider, analysis, call, http, fn, cls, cmp, top, live, sc, mc, tr>>

InitConc ==
    /\ Idle /\ fn = NoFn /\ cls = NoCls
    /\ \E stream \in Streams : conc = [rng |-> stream, threads |-> [t \in Threads |-> IdleThread]]
    /\ cmp = NoCmp /\ top = NoTop /\ live = NoLive /\ sc = NoSc /\ mc = NoMc /\ tr = NoTr

NextConc ==
    \/ \E t \in Threads, hist \in ConcHistories, d \in 1..MaxDays : Enter(t, hist, d)
    \/ \E t \in Threads : Draw(t)
    \/ \E t \in Threads : Leave(t)

SpecConc == InitConc /\ [][NextConc]_vars

\* what a call returns when no other call draws while it runs: its jitters are
\* the first days_ahead values of the generator as it found it
AloneResult(thread) ==
    Respond(thread.analysis, thread.days_ahead, SliceFirst(thread.seen, thread.days_ahead))

\* C11: under every interleaving of two concurrent predict_price calls, each
\* call returns the result it returns when it runs alone on the same inputs
C11_ConcurrentCallsIndependent ==
    \A t \in Threads :
        conc.threads[t].pc = "done" => conc.threads[t].result = AloneResult(conc.threads[t])

\* C11, the failing case: both calls have returned, each with two days ahead,
\* and the first returned other predictions than it does alone
C11_InterleavedCallDiffers ==
    /\ \A t \in Threads : conc.threads[t].pc = "done" /\ conc.threads[t].days_ahead = 2
    /\ conc.threads[1].result.predictions # AloneResult(conc.threads[1]).predictions

----------------------------------------------------------------------------
\* POST /api/compare, checked under SpecCmp

MaxSymbols == 2
CompareLimit == 5
CompareDays == 5

Tickers == {"AAPL", "MSFT", "TSLA"}
RequestSymbols == {"aapl", "MSFT", "TSLA"}

\* str.upper on the symbols of the requests
Upper(symbol) == IF symbol = "aapl" THEN "AAPL" ELSE symbol

\* what the provider holds for a ticker: an exception, an empty frame, a flat
\* series on which the computation fails, a series that is analysed
CmpHistories ==
    {[raises |-> TRUE, closes |-> <<>>, volumes |-> <<>>],
     [raises |-> FALSE, closes |-> <<>>, volumes |-> <<>>],
     [raises |-> FALSE, closes |-> Closes(MinBars, <<40, 40>>), volumes |-> Volumes(MinBars, "steady")],
     [raises |-> FALSE, closes |-> Closes(MinBars, <<45, 60>>), volumes |-> Volumes(MinBars, "steady")]}

Markets == [Tickers -> CmpHistories]

\* the symbol lists of the requests, one of them longer than the limit
Requests ==
    UNION {[1..n -> RequestSymbols] : n \in 0..MaxSymbols}
    \cup {[i \in 1..(CompareLimit + 1) |-> IF i % 2 = 1 THEN "aapl" ELSE "MSFT"]}

\* a variant that reports the change of the first projection point
CompareResponseFirstDay(symbol, prediction) ==
    [symbol |-> Upper(symbol),
     signal |-> prediction.signal,
     confidence |-> prediction.confidence,
     predicted_change |-> prediction.predictions[1].change_pct]

CompareResponse(symbol, prediction) ==
    [symbol |-> Upper(symbol),
     signal |-> prediction.signal,
     confidence |-> prediction.confidence,
     predicted_change |-> prediction.predictions[Len(prediction.predictions)].change_pct]

\* the loop of compare_stocks over symbols[from..]: a falsy prediction adds nothing
RECURSIVE CompareLoop(_, _, _, _)
CompareLoop(market, symbols, jitter, from) ==
    IF from > Len(symbols) THEN <<>>
    ELSE LET rest_of_loop == CompareLoop(market, symbols, jitter, from + 1)
             Body(prediction) == IF prediction.kind = "None" THEN rest_of_loop
                                 ELSE <<CompareResponse(symbols[from], prediction)>> \o rest_of_loop
         IN  CHOOSE results \in {Body(prediction) : prediction \in {predict_price(market[Upper(symbols[from])], CompareDays, jitter)}} : TRUE

CompareStocks(request_symbols, j) ==
    /\ cmp.status = 0
    /\ LET symbols == SliceFirst(request_symbols, CompareLimit)
           results == CompareLoop(cmp.market, symbols, [i \in 1..CompareDays |-> j], 1)
       \* cmp.jitter is what np.random.uniform returned during the request,
       \* cmp.analysed the symbols predict_price was called with
       IN  cmp' = [cmp EXCEPT !.symbols = request_symbols,
                              !.jitter = j,
                              !.analysed = [i \in 1..Len(symbols) |-> Upper(symbols[i])],
                              !.status = IF results = <<>> THEN 404 ELSE 200,
                              !.results = IF results = <<>> THEN <<>> ELSE results]
    /\ UNCHANGED <<provider, analysis, call, http, fn, cls, conc, top, live, sc, mc, tr>>

InitCmp ==
    /\ Idle /\ fn = NoFn /\ cls = NoCls
    /\ \E market \in Markets : cmp = [NoCmp EXCEPT !.market = market]
    /\ conc = NoConc /\ top = NoTop /\ live = NoLive /\ sc = NoSc /\ mc = NoMc /\ tr = NoTr

NextCmp == \E request_symbols \in Requests, j \in Jitters : CompareStocks(request_symbols, j)

SpecCmp == InitCmp /\ [][NextCmp]_vars

\* the requested symbols compare_stocks looks at, and those it answers for
Considered == {Upper(SliceFirst(cmp.symbols, CompareLimit)[i]) : i \in 1..Len(SliceFirst(cmp.symbols, CompareLimit))}
Answered == {cmp.results[i].symbol : i \in 1..Len(cmp.results)}
Failed(ticker) == predict_price(cmp.market[ticker], CompareDays, [i \in 1..CompareDays |-> R(1, 10)]).kind = "None"

\* C13: no analysis error is silently swallowed: a successful answer of
\* /api/compare leaves out no requested symbol whose prediction failed
C13_CompareOmitsNoFailedSymbol ==
    cmp.status = 200 => \A ticker \in Considered : Failed(ticker) => ticker \in Answered

\* C13, the failing case: AAPL is analysed, the provider has no data for MSFT,
\* and the answer is a success with the one entry for AAPL
C13_FailedSymbolLeftOut ==
    /\ cmp.symbols = <<"aapl", "MSFT">>
    /\ cmp.market["MSFT"].closes = <<>>
    /\ cmp.status = 200
    /\ Len(cmp.results) = 1
    /\ cmp.results[1].symbol = "AAPL"

\* C22: compare_stocks analyses the first 5 symbols of the request and no
\* other, returns one entry per analysed symbol that gave a prediction, in
\* request order, with predicted_change the change_pct of the day 5 point, and
\* answers 404 exactly when no symbol gave a prediction
C22_FirstFiveInRequestOrder ==
    cmp.status # 0 =>
        LET outcomes == {<<t, predict_price(cmp.market[t], 5, [i \in 1..5 |-> cmp.jitter])>> : t \in Tickers}
            Outcome(t) == (CHOOSE o \in outcomes : o[1] = t)[2]
            good == {i \in 1..Len(cmp.analysed) : Outcome(cmp.analysed[i]).kind # "None"}
            Nth(r) == CHOOSE i \in good : Cardinality({g \in good : g <= i}) = r
        IN  /\ Len(cmp.analysed) = (IF Len(cmp.symbols) < 5 THEN Len(cmp.symbols) ELSE 5)
            /\ \A i \in 1..Len(cmp.analysed) : cmp.analysed[i] = Upper(cmp.symbols[i])
            /\ Len(cmp.results) = Cardinality(good)
            /\ \A r \in 1..Len(cmp.results) :
                   /\ cmp.results[r].symbol = cmp.analysed[Nth(r)]
                   /\ Outcome(cmp.analysed[Nth(r)]).predictions[5].day = 5
                   /\ cmp.results[r].predicted_change =
                          Outcome(cmp.analysed[Nth(r)]).predictions[5].change_pct
            /\ cmp.status = (IF good = {} THEN 404 ELSE 200)

\* C22: six symbols are sent, aapl and MSFT in turn; nothing is found for
\* AAPL, and the answer holds two entries for MSFT, not one for the sixth symbol
C22_SixthSymbolNotAnalysed ==
    /\ Len(cmp.symbols) = 6 /\ Len(cmp.analysed) = 5
    /\ cmp.symbols[6] = "MSFT" /\ cmp.market["AAPL"].closes = <<>>
    /\ cmp.status = 200
    /\ Len(cmp.results) = 2
    /\ cmp.results[2].symbol = "MSFT"
    /\ cmp.results[2].predicted_change # I(0)

----------------------------------------------------------------------------
\* gainers.py: get_top_gainers and get_top_losers, checked under SpecTop.
\* A stock is its percent_change; a heap entry is <<percent_change, i>>, the
\* stock itself never being compared since the indices differ.

MaxStocks == 4
MaxK == 2
Changes == {-2, -1, 0, 1, 2}

\* tuple order of Python on (percent_change, i)
TupleLess(a, b) == a[1] < b[1] \/ (a[1] = b[1] /\ a[2] < b[2])

\* heapq.heappop removes the smallest entry
HeapPop(heap) == heap \ {CHOOSE a \in heap : \A b \in heap \ {a} : TupleLess(a, b)}

\* sorted(heap), and sorted(heap, reverse=True)
RECURSIVE Sorted(_, _)
Sorted(heap, reverse) ==
    IF heap = {} THEN <<>>
    ELSE LET first == CHOOSE a \in heap : \A b \in heap \ {a} :
                          IF reverse THEN TupleLess(b, a) ELSE TupleLess(a, b)
         IN  <<first>> \o Sorted(heap \ {first}, reverse)

\* the loop both functions run over enumerate(stocks), from index i on;
\* sign is 1 for `percent_change > 0` and -1 for `percent_change < 0`
RECURSIVE HeapLoop(_, _, _, _, _)
HeapLoop(stocks, k, sign, i, heap) ==
    IF i > Len(stocks) THEN heap
    ELSE IF sign * stocks[i] > 0
         THEN LET pushed == heap \cup {<<stocks[i], i>>}
              IN  HeapLoop(stocks, k, sign, i + 1,
                           IF Cardinality(pushed) > k THEN HeapPop(pushed) ELSE pushed)
         ELSE HeapLoop(stocks, k, sign, i + 1, heap)

\* a variant that keeps the first k gainers it meets
get_first_gainers(stocks, k) ==
    Sorted({<<stocks[i], i>> : i \in {j \in 1..Len(stocks) : stocks[j] > 0 /\ Cardinality({h \in 1..j : stocks[h] > 0}) <= k}}, TRUE)

get_top_gainers(stocks, k) == Sorted(HeapLoop(stocks, k, 1, 1, {}), TRUE)

get_top_losers(stocks, k) == Sorted(HeapLoop(stocks, k, -1, 1, {}), FALSE)

GetTopGainers ==
    /\ "gainers" \notin top.called
    /\ top' = [top EXCEPT !.called = @ \cup {"gainers"},
                          !.gainers = get_top_gainers(top.stocks, top.k)]
    /\ UNCHANGED <<provider, analysis, call, http, fn, cls, conc, cmp, live, sc, mc, tr>>

GetTopLosers ==
    /\ "losers" \notin top.called
    /\ top' = [top EXCEPT !.called = @ \cup {"losers"},
                          !.losers = get_top_losers(top.stocks, top.k)]
    /\ UNCHANGED <<provider, analysis, call, http, fn, cls, conc, cmp, live, sc, mc, tr>>

InitTop ==
    /\ Idle /\ fn = NoFn /\ cls = NoCls
    /\ \E n \in 0..MaxStocks, k \in 0..MaxK : \E stocks \in [1..n -> Changes] :
           top = [NoTop EXCEPT !.stocks = stocks, !.k = k]
    /\ conc = NoConc /\ cmp = NoCmp /\ live = NoLive /\ sc = NoSc /\ mc = NoMc /\ tr = NoTr

NextTop == GetTopGainers \/ GetTopLosers

SpecTop == InitTop /\ [][NextTop]_vars

\* result holds the k stocks that are furthest on the side of sign (1: gains,
\* -1: losses), the furthest first
Extremes(result, stocks, k, sign) ==
    LET side == {i \in 1..Len(stocks) : sign * stocks[i] > 0}
        chosen == {result[r][2] : r \in 1..Len(result)}
    IN  /\ Len(result) = (IF Cardinality(side) < k THEN Cardinality(side) ELSE k)
        /\ Cardinality(chosen) = Len(result)
        /\ chosen \subseteq side
        /\ \A r \in 1..Len(result) : result[r][1] = stocks[result[r][2]]
        /\ \A r \in 1..(Len(result) - 1) : sign * result[r][1] >= sign * result[r + 1][1]
        /\ \A i \in side \ chosen : \A c \in chosen : sign * stocks[i] <= sign * stocks[c]

\* C14: get_top_losers returns the k stocks with the lowest negative
\* percent_change, the biggest loss first, also when more than k stocks fell
C14_LosersAreTheKLowest ==
    "losers" \in top.called => Extremes(top.losers, top.stocks, top.k, -1)

\* C14, the failing case: three stocks fell, one is asked for, and the
\* smallest loss comes back
C14_BiggestLossDiscarded ==
    /\ top.stocks = <<-2, -1, -1>> /\ top.k = 1 /\ "losers" \in top.called
    /\ top.losers = <<(<<-1, 3>>)>>

\* C15: get_top_gainers returns the k stocks with the highest positive
\* percent_change, the biggest gain first, equal values included
C15_GainersAreTheKHighest ==
    "gainers" \in top.called => Extremes(top.gainers, top.stocks, top.k, 1)

\* C15: more gainers than k, two of them with the same change
C15_TiedGainers ==
    /\ top.stocks = <<1, 2, 2, 1>> /\ top.k = 2 /\ "gainers" \in top.called
    /\ top.gainers = <<(<<2, 3>>), (<<2, 2>>)>>

----------------------------------------------------------------------------
\* search.py: the live market data endpoints, checked under SpecLive.
\* live.market is the set of tickers the provider has price data for.

LiveLimit == 20

\* generate_stock_data: the record with current_price None when the fetch raised
StockData(market, symbol) ==
    [symbol |-> symbol,
     current_price |-> IF symbol \in market THEN I(100) ELSE None,
     formatted |-> FALSE]

\* the body of the try block of get_live_market_data
LiveMarketBody(market, symbol) ==
    LET stock_data == StockData(market, Upper(symbol))
    IN  IF stock_data.current_price = None
        THEN [raised |-> TRUE, status |-> 404, data |-> <<>>]
        ELSE [raised |-> FALSE, status |-> 200,
              data |-> <<[stock_data EXCEPT !.formatted = TRUE]>>]

\* the body of the try block of get_multiple_live_data
MultipleLiveBody(market, symbol_list) ==
    IF Len(symbol_list) > LiveLimit
    THEN [raised |-> TRUE, status |-> 400, data |-> <<>>]
    ELSE [raised |-> FALSE, status |-> 200,
          data |-> [i \in 1..Len(symbol_list) |->
                       LET stock == StockData(market, Upper(symbol_list[i]))
                       IN  [stock EXCEPT !.formatted = Truthy(stock.current_price)]]]

\* `except Exception as e: raise HTTPException(status_code=500, ...)`: the
\* HTTPException raised in the body is an Exception and is caught here
ExceptException(outcome) ==
    IF outcome.raised THEN [outcome EXCEPT !.status = 500] ELSE outcome

LiveSymbolLists ==
    UNION {[1..n -> RequestSymbols] : n \in 1..MaxSymbols}
    \cup {[i \in 1..n |-> "MSFT"] : n \in {LiveLimit, LiveLimit + 1}}

GetLiveMarketData(symbol) ==
    /\ live.endpoint = "none"
    /\ LET outcome == ExceptException(LiveMarketBody(live.market, symbol))
       IN  live' = [live EXCEPT !.endpoint = "live-market-data", !.symbols = <<symbol>>,
                                !.status = outcome.status, !.data = outcome.data]
    /\ UNCHANGED <<provider, analysis, call, http, fn, cls, conc, cmp, top, sc, mc, tr>>

GetMultipleLiveData(symbol_list) ==
    /\ live.endpoint = "none"
    /\ LET outcome == ExceptException(MultipleLiveBody(live.market, symbol_list))
       IN  live' = [live EXCEPT !.endpoint = "multiple-stocks", !.symbols = symbol_list,
                                !.status = outcome.status, !.data = outcome.data]
    /\ UNCHANGED <<provider, analysis, call, http, fn, cls, conc, cmp, top, sc, mc, tr>>

InitLive ==
    /\ Idle /\ fn = NoFn /\ cls = NoCls
    /\ \E market \in SUBSET Tickers : live = [NoLive EXCEPT !.market = market]
    /\ conc = NoConc /\ cmp = NoCmp /\ top = NoTop /\ sc = NoSc /\ mc = NoMc /\ tr = NoTr

NextLive ==
    \/ \E symbol \in RequestSymbols : GetLiveMarketData(symbol)
    \/ \E symbol_list \in LiveSymbolLists : GetMultipleLiveData(symbol_list)

SpecLive == InitLive /\ [][NextLive]_vars

\* C16: more than 20 symbols are answered with 400, a symbol without price
\* data with 404, and neither status is turned into another one
C16_LimitAndMissingDataKeepTheirStatus ==
    /\ (live.endpoint = "multiple-stocks" /\ Len(live.symbols) > LiveLimit)
           => live.status = 400
    /\ (live.endpoint = "live-market-data" /\ Upper(live.symbols[1]) \notin live.market)
           => live.status = 404

\* C16, the failing case: the provider has nothing for TSLA and the answer
\* to /api/live-market-data/TSLA is a 500
C16_MissingDataAnswered500 ==
    /\ live.endpoint = "live-market-data"
    /\ live.symbols = <<"TSLA">> /\ "TSLA" \notin live.market
    /\ live.status = 500

----------------------------------------------------------------------------
\* The prediction score block of predict_price (lines 248-294), checked under
\* SpecScore at indicator values on and around the bounds of the RSI bands

RsiGrid == {I(0), R(299, 10), I(30), I(35), I(40), I(50), I(60), R(601, 10), I(70), R(701, 10), I(100)}

ScoreBlock ==
    /\ sc.prediction_score = Unset
    /\ LET g == sc.given
           components == PredictionComponents(g.rsi, g.sma[1], g.sma[2], g.momentum,
                                              g.macd_histogram, g.bands[1], g.bands[2], g.bands[3])
       IN  sc' = [sc EXCEPT !.components = components,
                            !.prediction_score = PredictionScore(components)]
    /\ UNCHANGED <<provider, analysis, call, http, fn, cls, conc, cmp, top, live, mc, tr>>

InitScore ==
    /\ Idle /\ fn = NoFn /\ cls = NoCls
    \* sma is (sma_20, sma_50), bands is (current_price, upper_bb, lower_bb)
    /\ \E rsi \in RsiGrid,
          sma \in {<<None, None>>, <<I(40), None>>, <<I(42), I(40)>>, <<I(39), I(40)>>, <<I(50), I(40)>>},
          momentum \in {I(0), I(5), I(-20), I(50)},
          h \in {I(0), R(1, 20), I(-1), I(1)},
          bands \in {<<I(40), None, None>>, <<I(40), I(50), I(30)>>,
                     <<I(31), I(50), I(30)>>, <<I(49), I(50), I(30)>>} :
           sc = [NoSc EXCEPT !.given = [rsi |-> rsi, sma |-> sma, momentum |-> momentum,
                                        macd_histogram |-> h, bands |-> bands]]
    /\ conc = NoConc /\ cmp = NoCmp /\ top = NoTop /\ live = NoLive /\ mc = NoMc /\ tr = NoTr

NextScore == ScoreBlock

SpecScore == InitScore /\ [][NextScore]_vars

\* C17: the RSI contribution is 0.30 times +3 below 30, +1.5 from 30 to below
\* 40, 0 from 40 to 60, -1.5 above 60 up to 70, -3 above 70, and
\* prediction_score is the sum of it and the four other contributions
C17_RsiContributionAndSum ==
    sc.prediction_score # Unset =>
        LET rsi == sc.given.rsi
            c == sc.components
            band == IF RLt(rsi, I(30)) THEN R(3, 1)
                    ELSE IF RLe(I(30), rsi) /\ RLt(rsi, I(40)) THEN R(15, 10)
                    ELSE IF RLe(I(40), rsi) /\ RLe(rsi, I(60)) THEN I(0)
                    ELSE IF RLt(I(60), rsi) /\ RLe(rsi, I(70)) THEN R(-15, 10)
                    ELSE R(-3, 1)
        IN  /\ c.rsi = RMul(R(3, 10), band)
            /\ sc.prediction_score =
                   RAdd(c.rsi, RAdd(c.ma_crossover, RAdd(c.momentum, RAdd(c.macd, c.bollinger))))

\* C17: an RSI of exactly 30 counts 0.45, an RSI of exactly 70 would count
\* -0.45; here 30 with the other four contributions at work
C17_RsiAtThirty ==
    /\ sc.prediction_score # Unset
    /\ sc.given.rsi = I(30) /\ sc.components.rsi = R(45, 100)
    /\ sc.components.ma_crossover # I(0) /\ sc.components.momentum # I(0)
    /\ sc.components.macd # I(0) /\ sc.components.bollinger # I(0)

\* C23: each contribution stays within its bound (0.9, 0.75, 0.6, 0.3, 0.2),
\* |prediction_score| <= 2.75, the caps 85 and 75 of the confidence are never
\* the smaller term, and the confidence never exceeds 82.5
C23_ScoreAndConfidenceBounded ==
    sc.prediction_score # Unset =>
        LET c == sc.components
            s == sc.prediction_score
            Within(x, bound) == RLe(RAbs(x), bound)
            strong == RAdd(I(55), RMul(RAbs(s), I(10)))
            plain == RAdd(I(50), RMul(RAbs(s), I(8)))
        IN  /\ Within(c.rsi, R(90, 100)) /\ Within(c.ma_crossover, R(75, 100))
            /\ Within(c.momentum, R(60, 100)) /\ Within(c.macd, R(30, 100))
            /\ Within(c.bollinger, R(20, 100))
            /\ Within(s, R(275, 100))
            /\ SignalOf(s) \in {"STRONG BUY", "STRONG SELL"}
                   => (RLe(strong, I(85)) /\ ConfidenceOf(s, I(0)) = strong)
            /\ SignalOf(s) \in {"BUY", "SELL"}
                   => (RLe(plain, I(75)) /\ ConfidenceOf(s, I(0)) = plain)
            /\ \A v \in Volatilities : RLe(ConfidenceOf(s, v), R(825, 10))

\* C23: every contribution at its upper bound: the score is 2.75 and the
\* confidence of a calm series 82.5
C23_ScoreAtItsBound ==
    /\ sc.prediction_score = R(275, 100)
    /\ sc.components.macd = R(30, 100) /\ sc.components.momentum = R(60, 100)
    /\ ConfidenceOf(sc.prediction_score, I(0)) = R(825, 10)

----------------------------------------------------------------------------
\* calculate_macd, checked under SpecMacd on series around the 26 prices it
\* needs

MacdInputs == {Rats(Closes(n, t)) : n \in {24, 25, 26, 27}, t \in Tails}

CallMacd ==
    /\ mc.result = Unset
    /\ mc' = [mc EXCEPT !.result = calculate_macd(mc.prices)]
    /\ UNCHANGED <<provider, analysis, call, http, fn, cls, conc, cmp, top, live, sc, tr>>

InitMacd ==
    /\ Idle /\ fn = NoFn /\ cls = NoCls
    /\ \E prices \in MacdInputs : mc = [NoMc EXCEPT !.prices = prices]
    /\ conc = NoConc /\ cmp = NoCmp /\ top = NoTop /\ live = NoLive /\ sc = NoSc /\ tr = NoTr

NextMacd == CallMacd

SpecMacd == InitMacd /\ [][NextMacd]_vars

\* C19: calculate_macd returns (0, 0, 0) for fewer than 26 prices, and for 26
\* prices or more its histogram is macd_line - signal_line
C19_HistogramIsLineMinusSignal ==
    mc.result # Unset =>
        IF Len(mc.prices) < 26 THEN mc.result = <<I(0), I(0), I(0)>>
        ELSE mc.result[3] = RSub(mc.result[1], mc.result[2])

\* C19, the failing case: 25 closes of 40 and one of 60 give macd_line 30/13,
\* signal_line 0 and histogram 0
C19_HistogramZeroWithoutSignal ==
    /\ mc.prices = Rats(Closes(26, <<40, 60>>))
    /\ mc.result = <<R(30, 13), I(0), I(0)>>

----------------------------------------------------------------------------
\* The trend score of predict_price (lines 367-372), checked under SpecTrend
\* on series whose lengths lie on either side of 20, 50 and 200

\* n closes: `old` up to 50 days ago, `mid` from 50 to 20 days ago, 40 since,
\* and `last` today
TrendSeries(n, old, mid, last) ==
    Rats(List([i \in 1..n |-> IF i = n THEN last
                              ELSE IF i <= n - 50 THEN old
                              ELSE IF i <= n - 20 THEN mid
                              ELSE 40]))

ComputeTrend ==
    /\ ~tr.done
    /\ LET prices == tr.prices
       IN  tr' = [tr EXCEPT !.done = TRUE,
                            !.trend_score = TrendScore(prices[Len(prices)],
                                                       calculate_sma(prices, 20),
                                                       calculate_sma(prices, 50),
                                                       calculate_sma(prices, 200))]
    /\ UNCHANGED <<provider, analysis, call, http, fn, cls, conc, cmp, top, live, sc, mc>>

InitTrend ==
    /\ Idle /\ fn = NoFn /\ cls = NoCls
    /\ \E n \in {19, 20, 49, 50, 199, 200}, old \in {30, 40, 50}, mid \in {30, 40, 50}, last \in {30, 40, 60} :
           tr = [NoTr EXCEPT !.prices = TrendSeries(n, old, mid, last)]
    /\ conc = NoConc /\ cmp = NoCmp /\ top = NoTop /\ live = NoLive /\ sc = NoSc /\ mc = NoMc

NextTrend == ComputeTrend

SpecTrend == InitTrend /\ [][NextTrend]_vars

\* the mean of the last k prices
MeanOfLast(prices, k) == RDiv(SumRange(prices, Len(prices) - k + 1, Len(prices)), I(k))

\* C20: trend_score is the number of true comparisons minus the number of
\* false ones among the pairs whose averages are defined: 0 with fewer than 20
\* prices, -1 or 1 with 20 to 49, odd within [-3, 3] with 50 to 199, odd within
\* [-5, 5] with 200 or more
C20_TrendScoreCountsComparisons ==
    tr.done =>
        LET prices == tr.prices
            n == Len(prices)
            price == prices[n]
            \* <<larger, smaller>> of each comparison that is made
            pairs == (IF n >= 20 THEN <<(<<price, MeanOfLast(prices, 20)>>)>> ELSE <<>>)
                  \o (IF n >= 50 THEN <<(<<price, MeanOfLast(prices, 50)>>),
                                        (<<MeanOfLast(prices, 20), MeanOfLast(prices, 50)>>)>> ELSE <<>>)
                  \o (IF n >= 200 THEN <<(<<price, MeanOfLast(prices, 200)>>),
                                         (<<MeanOfLast(prices, 50), MeanOfLast(prices, 200)>>)>> ELSE <<>>)
            true == {i \in 1..Len(pairs) : RLt(pairs[i][2], pairs[i][1])}
            false == (1..Len(pairs)) \ true
            s == tr.trend_score
        IN  /\ s = Cardinality(true) - Cardinality(false)
            /\ n < 20 => s = 0
            /\ (n >= 20 /\ n < 50) => s \in {-1, 1}
            /\ (n >= 50 /\ n < 200) => s \in {-3, -1, 1, 3}
            /\ n >= 200 => s \in {-5, -3, -1, 1, 3, 5}

\* C20: 200 prices that rose from 30 through 40 to 60: all five comparisons
\* are true
C20_AllFiveTrue ==
    /\ tr.done
    /\ tr.prices = TrendSeries(200, 30, 30, 60)
    /\ tr.trend_score = 5

----------------------------------------------------------------------------
\* generate_analysis, checked under SpecAnalysis at values in every band of
\* its six blocks; sc.runs keeps the lists of up to two calls on sc.given

GenerateAnalysis ==
    /\ Len(sc.runs) < 2
    /\ LET g == sc.given
       IN  sc' = [sc EXCEPT !.runs = Append(@, generate_analysis(g.rsi, g.momentum, g.trend_score,
                                                                  g.volume_trend, g.prediction_score,
                                                                  g.volatility, g.macd_histogram))]
    /\ UNCHANGED <<provider, analysis, call, http, fn, cls, conc, cmp, top, live, mc, tr>>

InitAnalysis ==
    /\ Idle /\ fn = NoFn /\ cls = NoCls
    /\ \E rsi \in {I(29), I(30), I(70), I(71)}, trend_score \in {-3, -1, 0, 1, 3},
          momentum \in {I(6), I(5), I(2), I(0), I(-6)},
          volume_trend \in {I(31), I(30), I(-31)},
          volatility \in {I(6), I(5), I(1)},
          macd_histogram \in {I(1), R(1, 2), I(-1)} :
           sc = [NoSc EXCEPT !.given = [rsi |-> rsi, momentum |-> momentum, trend_score |-> trend_score,
                                        volume_trend |-> volume_trend, prediction_score |-> I(1),
                                        volatility |-> volatility, macd_histogram |-> macd_histogram]]
    /\ conc = NoConc /\ cmp = NoCmp /\ top = NoTop /\ live = NoLive /\ mc = NoMc /\ tr = NoTr

NextAnalysis == GenerateAnalysis

SpecAnalysis == InitAnalysis /\ [][NextAnalysis]_vars

\* the place of a line's category in the order RSI, trend, momentum, volume,
\* volatility, MACD
CategoryOf(text) ==
    CASE text \in {"oversold", "overbought", "rsi neutral"} -> 1
      [] text \in {"strong bullish trend", "strong bearish trend", "mild bullish bias",
                   "mild bearish bias", "consolidation"} -> 2
      [] text \in {"strong positive momentum", "strong negative momentum", "low momentum"} -> 3
      [] text \in {"higher volume", "lower volume"} -> 4
      [] text \in {"high volatility", "low volatility"} -> 5
      [] text \in {"macd bullish", "macd bearish"} -> 6

\* C21: the lines come in the order RSI, trend, momentum, volume, volatility,
\* MACD, at most one per category; the RSI and the trend line are always
\* there, each of the other four exactly when its value lies in one of its
\* bands, and a second call on the same inputs gives the same list
C21_AnalysisLinesInFixedOrder ==
    LET g == sc.given
        Outside(x, lo, hi) == RLt(x, lo) \/ RLt(hi, x)
    IN  /\ \A r \in 1..Len(sc.runs) :
               LET lines == sc.runs[r]
                   cats == {CategoryOf(lines[i].text) : i \in 1..Len(lines)}
               IN  /\ Len(lines) >= 2 /\ Len(lines) <= 6
                   /\ \A i \in 1..(Len(lines) - 1) :
                          CategoryOf(lines[i].text) < CategoryOf(lines[i + 1].text)
                   /\ CategoryOf(lines[1].text) = 1 /\ CategoryOf(lines[2].text) = 2
                   /\ 3 \in cats <=> (Outside(g.momentum, I(-5), I(5)) \/ RLt(RAbs(g.momentum), I(2)))
                   /\ 4 \in cats <=> Outside(g.volume_trend, I(-30), I(30))
                   /\ 5 \in cats <=> (RLt(I(5), g.volatility) \/ RLt(g.volatility, R(15, 10)))
                   /\ 6 \in cats <=> Outside(g.macd_histogram, R(-1, 2), R(1, 2))
        /\ Len(sc.runs) = 2 => sc.runs[1] = sc.runs[2]

\* C21: two calls on inputs that put a line in each of the six categories
C21_SixLinesTwice ==
    /\ Len(sc.runs) = 2
    /\ Len(sc.runs[1]) = 6
    /\ sc.given.trend_score = 0 /\ sc.given.momentum = I(-6)

----------------------------------------------------------------------------
\* predict_price when every np.random.uniform draw returns 0, checked under
\* SpecUnjittered on the series of Spec

Horizons == (1..MaxDays) \cup {5}

PredictPriceUnjittered(days_ahead) ==
    /\ call.state = "none"
    /\ call' = [state |-> "returned", days_ahead |-> days_ahead,
                result |-> Respond(analysis, days_ahead, [i \in 1..days_ahead |-> I(0)])]
    /\ http' = NoHttp
    /\ UNCHANGED <<provider, analysis, fn, cls>>
    /\ UNCHANGED others

NextUnjittered == \E d \in Horizons : PredictPriceUnjittered(d)

SpecUnjittered == Init /\ [][NextUnjittered]_vars

\* base_change + 0.1 * momentum of the call
NominalChange ==
    RAdd(RMul(analysis.prediction_score, RDiv(analysis.volatility, I(5))),
         RMul(analysis.momentum, R(1, 10)))

\* cumulative_change after the pass for `day` of the loop, jitter 0
CumulativeChange(day) ==
    Projection(day, call.days_ahead, RDiv(NominalChange, I(call.days_ahead)), analysis.volatility,
               analysis.current_price, [i \in 1..call.days_ahead |-> I(0)]).cumulative_change

\* C26: with jitter 0 and horizon h >= 1 the cumulative change has on every
\* day the sign of base_change + 0.1 * momentum, its magnitude never falls
\* from one day to the next, and on the last day it is that nominal change
\* times (1.1 + 0.1 / h), between 1.1 and 1.2 times the nominal change
C26_ProjectionOvershoots ==
    (Returned /\ call.result.kind = "Response") =>
        LET h == call.days_ahead
            last == CumulativeChange(h)
        IN  /\ \A day \in 1..h :
                   /\ RSign(CumulativeChange(day)) = RSign(NominalChange)
                   /\ call.result.predictions[day].change_pct = Round(CumulativeChange(day), 2)
            /\ \A day \in 1..(h - 1) :
                   RLe(RAbs(CumulativeChange(day)), RAbs(CumulativeChange(day + 1)))
            /\ last = RMul(NominalChange, RAdd(R(11, 10), R(1, 10 * h)))
            /\ RLe(RMul(R(11, 10), RAbs(NominalChange)), RAbs(last))
            /\ RLe(RAbs(last), RMul(R(12, 10), RAbs(NominalChange)))

\* C26: five days ahead on a falling series: the nominal change is negative
\* and the last point lies 12% beyond it
C26_FiveDaysOvershoot ==
    /\ Returned /\ call.result.kind = "Response" /\ call.days_ahead = 5
    /\ RSign(NominalChange) < 0
    /\ CumulativeChange(5) = RMul(NominalChange, R(112, 100))
    /\ RLt(CumulativeChange(5), CumulativeChange(1))

====
